---------------------------- MODULE Spec2Model ----------------------------
(***************************************************************************)
(* A model of the DAO contract of examples/dao/ink!/dao/lib.rs: the        *)
(* proposal store, the deposit ledger, the quorum calculator, the voting   *)
(* engine and execute_proposal with its one external dispatch, during      *)
(* which the recipient may call back into the contract.                    *)
(*                                                                         *)
(* The contract is one object (`self`), as in the repository's tests; a    *)
(* message is one atomic step, except execute_proposal, which is suspended *)
(* on `stack` while the dispatched call runs.  A panic (index out of       *)
(* range, a checked subtraction that underflows, a refund transfer that    *)
(* fails) aborts the call: the contract state is left as it was.           *)
(***************************************************************************)
EXTENDS Integers, Sequences, FiniteSets, TLC

(***************************************************************************)
(* Program constants (lib.rs:37-54)                                        *)
(***************************************************************************)
SECOND == 1
MINUTE == 60 * SECOND
HOUR == 60 * MINUTE
DAY == 24 * HOUR
WEEK == 7 * DAY
MIN_PROPOSAL_DEBATE_PERIOD == 2 * WEEK
QUORUM_HALVING_PERIOD == 25 * WEEK
EXECUTE_PROPOSAL_PERIOD == 10 * DAY
PRE_SUPPORT_TIME == 2 * DAY
MAX_DEPOSIT_DIVISOR == 100
MAX_DEBATE_PERIOD == 8 * WEEK
\* min_quorum_divisor set by the constructor
INIT_MIN_QUORUM_DIVISOR == 7
\* tmp_token_supply of min_quorum
TMP_TOKEN_SUPPLY == 1
\* the "split" selector bytes execute_proposal looks for: 0x68 0x37 0xff 0x1e
SplitSelector == <<104, 55, 255, 30>>

(***************************************************************************)
(* Bounds of the model                                                     *)
(***************************************************************************)
\* proposals that new_proposal may append (the sentinel at index 0 excluded)
MaxProposals == 1
\* the block timestamp moves at most this many times
MaxTicks == 4
\* vote does not raise a tally above this
MaxTally == 2
\* proposals that new_proposal may append where creation is examined
MaxCreated == 2
\* the last block timestamp, in weeks, of a contract constructed at 0
MaxEarlyWeeks == 40
\* the largest value min_quorum is applied to, and the largest balance
MaxQuorumValue == 6
MaxQuorumBalance == 6
\* dispatched calls that may be in progress at once (nesting of re-entry)
MaxDepth == 1

\* the block timestamp at construction, late enough for every `now - PERIOD`
\* of the code to be defined
StartTime == 26 * WEEK
\* The block timestamps of the model.  Seen from a proposal created at
\* StartTime with a debate period of two weeks, the steps lead to
\* deadline - PRE_SUPPORT_TIME, to the deadline, to the last instant of the
\* execution period and past it; then the same steps again.
TickSteps == <<12 * DAY, 2 * DAY, 10 * DAY, 2 * DAY>>
RECURSIVE TimeAt(_)
TimeAt(k) == IF k = 0 THEN StartTime
             ELSE TimeAt(k - 1) + TickSteps[((k - 1) % Len(TickSteps)) + 1]

\* the contract's own address, the curator, one more account, and the
\* all-zero AccountId of Proposal::default()
Contract == "dao"
Curator == "curator"
Bob == "bob"
ZeroAccount == "zero"
Accounts == {Contract, Curator, Bob}

\* inputs of the messages
Payloads == {<<2, 2>>, SplitSelector}
Amounts == {1, 3}
Selectors == {<<1, 2, 3, 4>>}
GasLimits == {1000}
\* new_proposal's (caller, recipient, debating_period, transferred value):
\* the accepted calls and one call for each way of being rejected
NewProposalCalls ==
    { <<Bob, Curator, 2 * WEEK, 2>>,
      <<Bob, Bob, 2 * WEEK, 2>>,
      <<Bob, Curator, 2 * WEEK - 1, 2>>,
      <<Bob, Curator, 8 * WEEK + 1, 2>>,
      <<Bob, Curator, 2 * WEEK, 0>>,
      <<Contract, Curator, 2 * WEEK, 2>> }
\* the accounts that vote, and the ids they vote on: the real ids and one
\* past the end of the store
Voters == {Bob}
VoteIds == 1 .. (MaxProposals + 1)
\* the callers and arguments of the governance messages
Callers == {Curator, Bob}
DepositCallers == {Contract, Bob}
NewDeposits == {1}
RegistryEntries == {Curator}
\* the contract's balance at construction
InitBalances == {0, 3}
\* the constructor's proposal_deposit argument
InitDeposits == {1}
\* proposal ids the messages are called with: the sentinel 0, the real ids,
\* and one id past the end of the store
Ids == 0 .. (MaxProposals + 1)

VARIABLES
    proposals,                  \* Vec<Proposal>; proposals[i + 1] is index i
    min_quorum_divisor,
    last_time_min_quorum_met,
    curator,
    allowed_recipients,         \* Mapping<AccountId, bool>, absent = FALSE
    blocked,                    \* Mapping<AccountId, u64>, absent = 0
    voting_register,            \* Mapping<AccountId, Vec<u64>>, absent = <<>>
    proposal_deposit,
    sum_of_proposal_deposits,
    balance,                    \* self.env().balance()
    now,                        \* self.env().block_timestamp()
    stack,                      \* execute_proposal calls waiting for their dispatch
    calls,                      \* ghost: the external calls dispatched
    transfers,                  \* ghost: the env().transfer refunds made
    events,                     \* ghost: the ProposalTallied events emitted
    committed,                  \* ghost: the payload each proposal was created with
    last                        \* ghost: the latest call and what it returned

cvars == <<proposals, min_quorum_divisor, last_time_min_quorum_met, curator,
           allowed_recipients, blocked, voting_register, proposal_deposit,
           sum_of_proposal_deposits, balance>>
gvars == <<calls, transfers, events, committed>>
vars == <<proposals, min_quorum_divisor, last_time_min_quorum_met, curator,
          allowed_recipients, blocked, voting_register, proposal_deposit,
          sum_of_proposal_deposits, balance, now, stack, calls, transfers,
          events, committed, last>>

(***************************************************************************)
(* Helpers                                                                 *)
(***************************************************************************)
\* self.proposals.len()
NumProposals == Len(proposals)
\* self.proposals[id as usize] is in range
InRange(id) == id < NumProposals
\* self.proposals[id as usize]
P(id) == proposals[id + 1]

\* the SCALE encoding of (recipient, amount, transaction_data): the fixed
\* width account and amount, then the length-prefixed bytes
Encode(recipient, amount, data) == <<recipient, amount, Len(data)>> \o data
\* Keccak256 over the encoding, taken to be collision free
HashEncoded(recipient, amount, data) == <<"keccak">> \o Encode(recipient, amount, data)
\* Hash::default()
ZeroHash == <<"zero">>

DefaultProposal ==
    [recipient |-> ZeroAccount, amount |-> 0, description |-> <<>>,
     voting_deadline |-> 0, open |-> FALSE, proposal_passed |-> FALSE,
     proposal_hash |-> ZeroHash, proposal_deposit |-> 0, new_curator |-> FALSE,
     pre_support |-> FALSE, yea |-> 0, nay |-> 0,
     voted_yes |-> {}, voted_no |-> {}, creator |-> ZeroAccount]

\* the messages whose latest call `last` records; a call of another message
\* leaves NoCall there
Observed == {"new", "execute_proposal", "new_proposal", "halve_min_quorum",
             "change_allowed_recipients", "min_quorum", "unblock_me",
             "verify_pre_support"}
NoCall == [op |-> "other", id |-> 0, res |-> "Ok", path |-> "other"]
\* what a call returned: the message, its proposal id, the value returned
\* ("panic" when the call aborts) and the path taken through the code
Ret(op, id, res, path) ==
    IF op \in Observed THEN [op |-> op, id |-> id, res |-> res, path |-> path]
    ELSE NoCall

\* the contract and the logs as a message finds them: what a panic after an
\* external call rolls the transaction back to
Snapshot ==
    [proposals |-> proposals, min_quorum_divisor |-> min_quorum_divisor,
     last_time_min_quorum_met |-> last_time_min_quorum_met, curator |-> curator,
     allowed_recipients |-> allowed_recipients, blocked |-> blocked,
     voting_register |-> voting_register, proposal_deposit |-> proposal_deposit,
     sum_of_proposal_deposits |-> sum_of_proposal_deposits, balance |-> balance,
     calls |-> calls, transfers |-> transfers, events |-> events,
     committed |-> committed]

\* the contract and the logs are back at the snapshot
Restored(saved) ==
    /\ proposals' = saved.proposals
    /\ min_quorum_divisor' = saved.min_quorum_divisor
    /\ last_time_min_quorum_met' = saved.last_time_min_quorum_met
    /\ curator' = saved.curator
    /\ allowed_recipients' = saved.allowed_recipients
    /\ blocked' = saved.blocked
    /\ voting_register' = saved.voting_register
    /\ proposal_deposit' = saved.proposal_deposit
    /\ sum_of_proposal_deposits' = saved.sum_of_proposal_deposits
    /\ balance' = saved.balance
    /\ calls' = saved.calls
    /\ transfers' = saved.transfers
    /\ events' = saved.events
    /\ committed' = saved.committed

\* a call that panics: nothing of the contract changes
Panics(op, id) ==
    /\ last' = Ret(op, id, "panic", "panic")
    /\ UNCHANGED <<cvars, now, stack, gvars>>

(***************************************************************************)
(* new / new_init                                                          *)
(***************************************************************************)
Init ==
    /\ now = StartTime
    /\ balance \in InitBalances
    /\ proposal_deposit \in InitDeposits
    /\ curator = Curator
    /\ last_time_min_quorum_met = now
    /\ min_quorum_divisor = INIT_MIN_QUORUM_DIVISOR
    /\ proposals = <<DefaultProposal>>
    /\ allowed_recipients = [a \in Accounts |-> a \in {Contract, Curator}]
    /\ blocked = [a \in Accounts |-> 0]
    /\ voting_register = [a \in Accounts |-> <<>>]
    /\ sum_of_proposal_deposits = 0
    /\ stack = <<>>
    /\ calls = <<>>
    /\ transfers = <<>>
    /\ events = <<>>
    /\ committed = <<>>
    /\ last = Ret("new", 0, "Ok", "new")

\* the block timestamp moves on between transactions, never during one; the
\* model's clock starts with the first proposal
Tick ==
    /\ stack = <<>>
    /\ NumProposals > 1
    /\ \E k \in 1 .. MaxTicks : now = TimeAt(k - 1) /\ now' = TimeAt(k)
    /\ last' = Ret("tick", 0, "Ok", "tick")
    /\ UNCHANGED <<cvars, stack, gvars>>

(***************************************************************************)
(* new_proposal                                                            *)
(***************************************************************************)
\* faulty variant: a deposit equal to the minimum is rejected
NewProposalRejectedAtMinimum(caller, recipient, debating_period, deposit) ==
    \/ ~allowed_recipients[recipient]
    \/ debating_period < MIN_PROPOSAL_DEBATE_PERIOD
    \/ debating_period > MAX_DEBATE_PERIOD
    \/ deposit <= proposal_deposit
    \/ caller = Contract

\* faulty variant: the contract may create a proposal itself
NewProposalRejectedUnlessSelf(caller, recipient, debating_period, deposit) ==
    \/ ~allowed_recipients[recipient]
    \/ debating_period < MIN_PROPOSAL_DEBATE_PERIOD
    \/ debating_period > MAX_DEBATE_PERIOD
    \/ deposit < proposal_deposit

NewProposalRejected(caller, recipient, debating_period, deposit) ==
    \/ ~allowed_recipients[recipient]
    \/ debating_period < MIN_PROPOSAL_DEBATE_PERIOD
    \/ debating_period > MAX_DEBATE_PERIOD
    \/ deposit < proposal_deposit
    \/ caller = Contract

NewProposal(caller, recipient, amount, description, transaction_data, debating_period, deposit) ==
    IF NewProposalRejected(caller, recipient, debating_period, deposit)
    THEN \* the value sent with a call that returns Err goes back to the caller
         /\ last' = Ret("new_proposal", 0, "ProposalCreationFailed", "rejected")
         /\ UNCHANGED <<cvars, now, stack, gvars>>
    ELSE /\ last_time_min_quorum_met' =
                IF NumProposals = 1 THEN now ELSE last_time_min_quorum_met
         /\ proposals' = Append(proposals,
                [recipient |-> recipient, amount |-> amount,
                 description |-> description,
                 voting_deadline |-> now + debating_period, open |-> TRUE,
                 proposal_passed |-> FALSE,
                 proposal_hash |-> HashEncoded(recipient, amount, transaction_data),
                 proposal_deposit |-> deposit, new_curator |-> FALSE,
                 pre_support |-> FALSE, yea |-> 0, nay |-> 0,
                 voted_yes |-> {}, voted_no |-> {}, creator |-> caller])
         /\ sum_of_proposal_deposits' = sum_of_proposal_deposits + deposit
         /\ balance' = balance + deposit
         /\ committed' = Append(committed, transaction_data)
         /\ last' = Ret("new_proposal", NumProposals, "Ok", "created")
         /\ UNCHANGED <<min_quorum_divisor, curator, allowed_recipients, blocked,
                        voting_register, proposal_deposit, now, stack, calls,
                        transfers, events>>

(***************************************************************************)
(* un_vote, vote, un_vote_all                                              *)
(***************************************************************************)
\* what the store operators below give for a call that panics: the store
\* itself is never empty, it holds the sentinel proposal 0
Panicked == <<>>

\* lib.rs:354, 359: `p.yea -= 1` / `p.nay -= 1` are checked subtractions and
\* panic when the caller's flag is set and the tally is 0
UnVotePanics(props, caller, proposal_id) ==
    LET p == props[proposal_id + 1] IN
    /\ now < p.voting_deadline
    /\ \/ caller \in p.voted_yes /\ p.yea = 0
       \/ caller \in p.voted_no /\ p.nay = 0

\* faulty variant: un_vote decrements without looking at the caller's flags
UnVotePropsUnflagged(props, caller, proposal_id) ==
    LET p == props[proposal_id + 1] IN
    IF now >= p.voting_deadline THEN props
    ELSE [props EXCEPT ![proposal_id + 1] =
            [p EXCEPT !.yea = p.yea - 1, !.voted_yes = p.voted_yes \ {caller},
                      !.nay = p.nay - 1, !.voted_no = p.voted_no \ {caller}]]

\* un_vote's effect on the store `props` (proposal_id in range): nothing at
\* or after the deadline; before it the caller's yea and nay are taken back.
\* voted_yes / voted_no hold the accounts whose entry is true: an absent
\* entry and a false one read the same through unwrap_or(&false).
UnVoteProps(props, caller, proposal_id) ==
    LET p == props[proposal_id + 1] IN
    IF now >= p.voting_deadline THEN props
    ELSE IF UnVotePanics(props, caller, proposal_id) THEN Panicked
    ELSE [props EXCEPT ![proposal_id + 1] =
            [p EXCEPT
               !.yea = IF caller \in p.voted_yes THEN p.yea - 1 ELSE p.yea,
               !.voted_yes = p.voted_yes \ {caller},
               !.nay = IF caller \in p.voted_no THEN p.nay - 1 ELSE p.nay,
               !.voted_no = p.voted_no \ {caller}]]

UnVote(caller, proposal_id) ==
    IF ~InRange(proposal_id) THEN Panics("un_vote", proposal_id)
    ELSE IF UnVoteProps(proposals, caller, proposal_id) = Panicked
    THEN Panics("un_vote", proposal_id)
    ELSE /\ proposals' = UnVoteProps(proposals, caller, proposal_id)
         /\ last' = Ret("un_vote", proposal_id, "Ok", "un_vote")
         /\ UNCHANGED <<min_quorum_divisor, last_time_min_quorum_met, curator,
                        allowed_recipients, blocked, voting_register,
                        proposal_deposit, sum_of_proposal_deposits, balance,
                        now, stack, gvars>>

\* the store after vote: un_vote, then the tally and the flag
VoteProps(props, caller, proposal_id, supports_proposal) ==
    LET un == UnVoteProps(props, caller, proposal_id) IN
    IF un = Panicked THEN Panicked
    ELSE LET p == un[proposal_id + 1] IN
         [un EXCEPT ![proposal_id + 1] =
            IF supports_proposal
            THEN [p EXCEPT !.yea = p.yea + 1, !.voted_yes = p.voted_yes \cup {caller}]
            ELSE [p EXCEPT !.nay = p.nay + 1, !.voted_no = p.voted_no \cup {caller}]]

\* the blocked pointer after vote
VoteBlocked(props, caller, proposal_id) ==
    LET blocked_proposal == blocked[caller] IN
    IF blocked_proposal = 0 THEN proposal_id
    ELSE IF props[proposal_id + 1].voting_deadline
              > props[blocked_proposal + 1].voting_deadline
         THEN proposal_id
         ELSE blocked_proposal

\* the vote keeps both tallies of the proposal within MaxTally: the bound
\* the specifications put on the calls they make, the message has none
VoteInBounds(caller, proposal_id, supports_proposal) ==
    (InRange(proposal_id)
       /\ VoteProps(proposals, caller, proposal_id, supports_proposal) # Panicked)
      => LET p == VoteProps(proposals, caller, proposal_id,
                            supports_proposal)[proposal_id + 1]
         IN  p.yea <= MaxTally /\ p.nay <= MaxTally

Vote(caller, proposal_id, supports_proposal) ==
    IF ~InRange(proposal_id) THEN Panics("vote", proposal_id)
    ELSE IF VoteProps(proposals, caller, proposal_id, supports_proposal) = Panicked
    THEN Panics("vote", proposal_id)
    ELSE LET props == VoteProps(proposals, caller, proposal_id, supports_proposal) IN
         /\ proposals' = props
         /\ blocked' = [blocked EXCEPT ![caller] = VoteBlocked(props, caller, proposal_id)]
         \* the id is pushed onto a copy of the caller's register that is
         \* dropped at the end of the call: the stored register is not written
         /\ last' = Ret("vote", proposal_id, "Ok", "vote")
         /\ UNCHANGED <<min_quorum_divisor, last_time_min_quorum_met, curator,
                        allowed_recipients, voting_register, proposal_deposit,
                        sum_of_proposal_deposits, balance, now, stack, gvars>>

\* un_vote_all's loop from index i on: `un_vote(i as u64)` for every entry
\* whose proposal is before its deadline
RECURSIVE UnVoteAllProps(_, _, _, _)
UnVoteAllProps(props, caller, register, i) ==
    IF props = Panicked \/ i >= Len(register) THEN props
    ELSE IF register[i + 1] >= Len(props) THEN Panicked
    ELSE UnVoteAllProps(
            IF now < props[register[i + 1] + 1].voting_deadline
            THEN (IF i >= Len(props) THEN Panicked
                  ELSE UnVoteProps(props, caller, i))
            ELSE props,
            caller, register, i + 1)

UnVoteAll(caller) ==
    IF UnVoteAllProps(proposals, caller, voting_register[caller], 0) = Panicked
    THEN Panics("un_vote_all", 0)
    ELSE
    /\ proposals' = UnVoteAllProps(proposals, caller, voting_register[caller], 0)
    /\ voting_register' = [voting_register EXCEPT ![caller] = <<>>]
    /\ blocked' = [blocked EXCEPT ![caller] = 0]
    /\ last' = Ret("un_vote_all", 0, "Ok", "un_vote_all")
    /\ UNCHANGED <<min_quorum_divisor, last_time_min_quorum_met, curator,
                   allowed_recipients, proposal_deposit,
                   sum_of_proposal_deposits, balance, now, stack, gvars>>

(***************************************************************************)
(* verify_pre_support (private; the tests call it)                         *)
(***************************************************************************)
VerifyPreSupport(proposal_id) ==
    IF ~InRange(proposal_id) \/ P(proposal_id).voting_deadline < PRE_SUPPORT_TIME
    THEN Panics("verify_pre_support", proposal_id)
    ELSE /\ proposals' = [proposals EXCEPT ![proposal_id + 1].pre_support =
                            now < P(proposal_id).voting_deadline - PRE_SUPPORT_TIME]
         /\ last' = Ret("verify_pre_support", proposal_id, "Ok", "verify_pre_support")
         /\ UNCHANGED <<min_quorum_divisor, last_time_min_quorum_met, curator,
                        allowed_recipients, blocked, voting_register,
                        proposal_deposit, sum_of_proposal_deposits, balance,
                        now, stack, gvars>>

(***************************************************************************)
(* actual_balance, min_quorum                                              *)
(***************************************************************************)
\* actual_balance() with the contract's balance `bal`; the subtraction is
\* checked, so the callers test ActualBalancePanics first
ActualBalance(bal) == bal - sum_of_proposal_deposits
ActualBalancePanics(bal) == bal < sum_of_proposal_deposits

\* min_quorum(value) with the contract's balance `bal`:
\* tmp_token_supply / divisor + (value * tmp_token_supply) / 3 * actual_balance()
MinQuorum(value, bal) ==
    (TMP_TOKEN_SUPPLY \div min_quorum_divisor)
        + ((value * TMP_TOKEN_SUPPLY) \div 3) * ActualBalance(bal)

(***************************************************************************)
(* close_proposal                                                          *)
(***************************************************************************)
\* faulty variant: close_proposal subtracts the deposit without looking at `open`
CloseSumUnguarded(proposal_id) ==
    sum_of_proposal_deposits - P(proposal_id).proposal_deposit
CloseSum(proposal_id) ==
    IF P(proposal_id).open
    THEN sum_of_proposal_deposits - P(proposal_id).proposal_deposit
    ELSE sum_of_proposal_deposits
\* faulty variant: close_proposal toggles the flag instead of clearing it
ClosePropsToggles(proposal_id) ==
    [proposals EXCEPT ![proposal_id + 1].open = ~P(proposal_id).open]
CloseProps(proposal_id) == [proposals EXCEPT ![proposal_id + 1].open = FALSE]
\* the checked subtraction of close_proposal underflows
ClosePanics(proposal_id) ==
    P(proposal_id).open /\ sum_of_proposal_deposits < P(proposal_id).proposal_deposit

\* close_proposal called on its own (private; the tests call it)
CloseProposal(proposal_id) ==
    IF ~InRange(proposal_id) \/ ClosePanics(proposal_id)
    THEN Panics("close_proposal", proposal_id)
    ELSE /\ sum_of_proposal_deposits' = CloseSum(proposal_id)
         /\ proposals' = CloseProps(proposal_id)
         /\ last' = Ret("close_proposal", proposal_id, "Ok", "close_proposal")
         /\ UNCHANGED <<min_quorum_divisor, last_time_min_quorum_met, curator,
                        allowed_recipients, blocked, voting_register,
                        proposal_deposit, balance, now, stack, gvars>>

(***************************************************************************)
(* execute_proposal                                                        *)
(***************************************************************************)
\* faulty variant: the late cleanup skips a proposal that has passed
ExecLateUnlessPassed(proposal_id) ==
    /\ P(proposal_id).open
    /\ ~P(proposal_id).proposal_passed
    /\ now > P(proposal_id).voting_deadline + EXECUTE_PROPOSAL_PERIOD

\* lib.rs:397, the late cleanup
ExecLate(proposal_id) ==
    /\ P(proposal_id).open
    /\ now > P(proposal_id).voting_deadline + EXECUTE_PROPOSAL_PERIOD

\* faulty variant: the validation does not compare the hash
ExecRejectedNoHash(proposal_id, transaction_data) ==
    LET p == P(proposal_id) IN
    \/ now < p.voting_deadline
    \/ ~p.open
    \/ p.proposal_passed

\* lib.rs:402-411, the validation
ExecRejected(proposal_id, transaction_data) ==
    LET p == P(proposal_id) IN
    \/ now < p.voting_deadline
    \/ ~p.open
    \/ p.proposal_passed
    \/ p.proposal_hash # HashEncoded(p.recipient, p.amount, transaction_data)

\* lib.rs:432-434
IsSplitCall(transaction_data) ==
    /\ Len(transaction_data) >= 4
    /\ transaction_data[1] = SplitSelector[1]
    /\ transaction_data[2] = SplitSelector[2]
    /\ transaction_data[3] = SplitSelector[3]
    /\ transaction_data[4] = SplitSelector[4]

\* lib.rs:425-437, proposal_check
ProposalCheck(proposal_id, transaction_data) ==
    LET p == P(proposal_id) IN
    /\ ~(p.amount > ActualBalance(balance) \/ p.pre_support = FALSE)
    /\ ~(IsSplitCall(transaction_data)
           /\ p.yea < MinQuorum(ActualBalance(balance), balance))

\* lib.rs:439, the tally meets the quorum
QuorumMet(proposal_id) ==
    P(proposal_id).yea >= MinQuorum(P(proposal_id).amount, balance)

\* the contract's balance after lib.rs:439-449
BalanceAfterRefund(proposal_id) ==
    IF QuorumMet(proposal_id)
    THEN balance - P(proposal_id).proposal_deposit
    ELSE balance

\* faulty variant: a proposal passes without a majority
ProposalPassesNoMajority(proposal_id, transaction_data) ==
    LET p == P(proposal_id) IN
    /\ p.yea >= MinQuorum(p.amount, BalanceAfterRefund(proposal_id))
    /\ ProposalCheck(proposal_id, transaction_data)

\* lib.rs:451, the proposal passes
ProposalPasses(proposal_id, transaction_data) ==
    LET p == P(proposal_id) IN
    /\ p.yea >= MinQuorum(p.amount, BalanceAfterRefund(proposal_id))
    /\ p.yea > p.nay
    /\ ProposalCheck(proposal_id, transaction_data)

\* the ProposalTallied event of lib.rs:479-483
TalliedEvent(proposal_id, quorum) ==
    [proposal_id |-> proposal_id, result |-> TRUE, quorum |-> quorum]

\* the refund env().transfer(p.creator, p.proposal_deposit), as recorded
Refund(proposal_id) ==
    [proposal_id |-> proposal_id, to |-> P(proposal_id).creator,
     value |-> P(proposal_id).proposal_deposit]

\* the call built by invoke_transaction, as recorded
Invocation(proposal_id, function_selector, transaction_data, gas_limit) ==
    [proposal_id |-> proposal_id, callee |-> P(proposal_id).recipient,
     value |-> P(proposal_id).amount, selector |-> function_selector,
     data |-> transaction_data, gas_limit |-> gas_limit]

\* lib.rs:397-400
ExecuteLate(proposal_id) ==
    IF ClosePanics(proposal_id) THEN Panics("execute_proposal", proposal_id)
    ELSE /\ sum_of_proposal_deposits' = CloseSum(proposal_id)
         /\ proposals' = CloseProps(proposal_id)
         /\ last' = Ret("execute_proposal", proposal_id, "Ok", "late")
         /\ UNCHANGED <<min_quorum_divisor, last_time_min_quorum_met, curator,
                        allowed_recipients, blocked, voting_register,
                        proposal_deposit, balance, now, stack, gvars>>

\* faulty variant: the proposal of a disallowed recipient is closed without a refund
ExecuteDepositReturnNoRefund(proposal_id) ==
    IF ClosePanics(proposal_id) THEN Panics("execute_proposal", proposal_id)
    ELSE /\ sum_of_proposal_deposits' = CloseSum(proposal_id)
         /\ proposals' = CloseProps(proposal_id)
         /\ last' = Ret("execute_proposal", proposal_id, "Ok", "deposit_return")
         /\ UNCHANGED <<min_quorum_divisor, last_time_min_quorum_met, curator,
                        allowed_recipients, blocked, voting_register,
                        proposal_deposit, balance, now, stack, gvars>>

\* lib.rs:413-423, the recipient is not allowed: the deposit goes back
ExecuteDepositReturn(proposal_id) ==
    IF balance < P(proposal_id).proposal_deposit \/ ClosePanics(proposal_id)
    THEN Panics("execute_proposal", proposal_id)
    ELSE /\ balance' = balance - P(proposal_id).proposal_deposit
         /\ transfers' = Append(transfers, Refund(proposal_id))
         /\ sum_of_proposal_deposits' = CloseSum(proposal_id)
         /\ proposals' = CloseProps(proposal_id)
         /\ last' = Ret("execute_proposal", proposal_id, "Ok", "deposit_return")
         /\ UNCHANGED <<min_quorum_divisor, last_time_min_quorum_met, curator,
                        allowed_recipients, blocked, voting_register,
                        proposal_deposit, now, stack, calls, events, committed>>

\* lib.rs:439-449 as part of the paths below
RefundIfQuorumMet(proposal_id) ==
    /\ last_time_min_quorum_met' =
           IF QuorumMet(proposal_id) THEN now ELSE last_time_min_quorum_met
    /\ transfers' = IF QuorumMet(proposal_id)
                    THEN Append(transfers, Refund(proposal_id)) ELSE transfers

\* lib.rs:451 false, then 477-485: the proposal is closed and tallied
ExecuteNotPassed(proposal_id) ==
    /\ RefundIfQuorumMet(proposal_id)
    /\ balance' = BalanceAfterRefund(proposal_id)
    /\ sum_of_proposal_deposits' = CloseSum(proposal_id)
    /\ proposals' = CloseProps(proposal_id)
    /\ events' = Append(events, TalliedEvent(proposal_id, P(proposal_id).yea))
    /\ last' = Ret("execute_proposal", proposal_id, "Ok", "not_passed")
    /\ UNCHANGED <<min_quorum_divisor, curator, allowed_recipients, blocked,
                   voting_register, proposal_deposit, now, stack, calls, committed>>

\* faulty variant: proposal_passed is set only once the dispatched call succeeded
ExecuteDispatchFailsUnguarded(proposal_id, function_selector, transaction_data, gas_limit) ==
    /\ RefundIfQuorumMet(proposal_id)
    /\ balance' = BalanceAfterRefund(proposal_id)
    /\ calls' = Append(calls,
           Invocation(proposal_id, function_selector, transaction_data, gas_limit))
    /\ last' = Ret("execute_proposal", proposal_id, "TransactionFailed", "dispatch_failed")
    /\ UNCHANGED <<proposals, min_quorum_divisor, curator, allowed_recipients,
                   blocked, voting_register, proposal_deposit,
                   sum_of_proposal_deposits, now, stack, events, committed>>

\* lib.rs:456-474 when the dispatched call fails: whatever the callee did is
\* rolled back with it, and execute_proposal returns the error at once
ExecuteDispatchFails(proposal_id, function_selector, transaction_data, gas_limit) ==
    /\ RefundIfQuorumMet(proposal_id)
    /\ balance' = BalanceAfterRefund(proposal_id)
    /\ proposals' = [proposals EXCEPT ![proposal_id + 1].proposal_passed = TRUE]
    /\ calls' = Append(calls,
           Invocation(proposal_id, function_selector, transaction_data, gas_limit))
    /\ last' = Ret("execute_proposal", proposal_id, "TransactionFailed", "dispatch_failed")
    /\ UNCHANGED <<min_quorum_divisor, curator, allowed_recipients, blocked,
                   voting_register, proposal_deposit, sum_of_proposal_deposits,
                   now, stack, events, committed>>

\* faulty variant: the call is dispatched before proposal_passed is set
ExecuteDispatchBeginsUnguarded(proposal_id, function_selector, transaction_data, gas_limit) ==
    /\ Len(stack) < MaxDepth
    /\ BalanceAfterRefund(proposal_id) >= P(proposal_id).amount
    /\ RefundIfQuorumMet(proposal_id)
    /\ balance' = IF P(proposal_id).recipient = Contract
                  THEN BalanceAfterRefund(proposal_id)
                  ELSE BalanceAfterRefund(proposal_id) - P(proposal_id).amount
    /\ calls' = Append(calls,
           Invocation(proposal_id, function_selector, transaction_data, gas_limit))
    /\ stack' = Append(stack, [proposal_id |-> proposal_id,
                               quorum |-> P(proposal_id).yea, saved |-> Snapshot])
    /\ last' = Ret("execute_proposal", proposal_id, "pending", "dispatching")
    /\ UNCHANGED <<proposals, min_quorum_divisor, curator, allowed_recipients,
                   blocked, voting_register, proposal_deposit,
                   sum_of_proposal_deposits, now, events, committed>>

\* lib.rs:456-471 when the dispatched call starts and runs: the amount goes
\* to the recipient, and execute_proposal waits on the stack with its
\* local `quorum` while the callee runs
ExecuteDispatchBegins(proposal_id, function_selector, transaction_data, gas_limit) ==
    /\ Len(stack) < MaxDepth
    /\ BalanceAfterRefund(proposal_id) >= P(proposal_id).amount
    /\ RefundIfQuorumMet(proposal_id)
    /\ balance' = IF P(proposal_id).recipient = Contract
                  THEN BalanceAfterRefund(proposal_id)
                  ELSE BalanceAfterRefund(proposal_id) - P(proposal_id).amount
    /\ proposals' = [proposals EXCEPT ![proposal_id + 1].proposal_passed = TRUE]
    /\ calls' = Append(calls,
           Invocation(proposal_id, function_selector, transaction_data, gas_limit))
    /\ stack' = Append(stack, [proposal_id |-> proposal_id,
                               quorum |-> P(proposal_id).yea, saved |-> Snapshot])
    /\ last' = Ret("execute_proposal", proposal_id, "pending", "dispatching")
    /\ UNCHANGED <<min_quorum_divisor, curator, allowed_recipients, blocked,
                   voting_register, proposal_deposit, sum_of_proposal_deposits,
                   now, events, committed>>

\* lib.rs:425-475, the tally of a validated proposal with an allowed recipient
ExecuteTally(proposal_id, function_selector, transaction_data, gas_limit) ==
    IF \/ ActualBalancePanics(balance)
       \/ (QuorumMet(proposal_id) /\ balance < P(proposal_id).proposal_deposit)
       \/ ActualBalancePanics(BalanceAfterRefund(proposal_id))
    THEN Panics("execute_proposal", proposal_id)
    ELSE IF ProposalPasses(proposal_id, transaction_data)
    THEN \/ ExecuteDispatchFails(proposal_id, function_selector, transaction_data, gas_limit)
         \/ ExecuteDispatchBegins(proposal_id, function_selector, transaction_data, gas_limit)
    ELSE IF ClosePanics(proposal_id) THEN Panics("execute_proposal", proposal_id)
    ELSE ExecuteNotPassed(proposal_id)

ExecuteProposal(proposal_id, function_selector, transaction_data, gas_limit) ==
    IF ~InRange(proposal_id) THEN Panics("execute_proposal", proposal_id)
    ELSE IF ExecLate(proposal_id) THEN ExecuteLate(proposal_id)
    ELSE IF ExecRejected(proposal_id, transaction_data)
    THEN /\ last' = Ret("execute_proposal", proposal_id, "ProposalExecutionFailed", "rejected")
         /\ UNCHANGED <<cvars, now, stack, gvars>>
    ELSE IF ~allowed_recipients[P(proposal_id).recipient]
    THEN ExecuteDepositReturn(proposal_id)
    ELSE ExecuteTally(proposal_id, function_selector, transaction_data, gas_limit)

\* lib.rs:472-485 once the dispatched call has returned Ok: the waiting
\* execute_proposal closes the proposal and emits the event
DispatchReturns ==
    /\ stack # <<>>
    /\ stack' = SubSeq(stack, 1, Len(stack) - 1)
    /\ LET frame == stack[Len(stack)] IN
       IF ClosePanics(frame.proposal_id)
       \* close_proposal panics at lib.rs:491: the message aborts and what it
       \* and the dispatched call did is rolled back
       THEN /\ Restored(frame.saved)
            /\ last' = Ret("execute_proposal", frame.proposal_id, "panic", "panic")
            /\ UNCHANGED now
       ELSE /\ sum_of_proposal_deposits' = CloseSum(frame.proposal_id)
            /\ proposals' = CloseProps(frame.proposal_id)
            /\ events' = Append(events, TalliedEvent(frame.proposal_id, frame.quorum))
            /\ last' = Ret("execute_proposal", frame.proposal_id, "Ok", "dispatched")
            /\ UNCHANGED <<min_quorum_divisor, last_time_min_quorum_met, curator,
                           allowed_recipients, blocked, voting_register,
                           proposal_deposit, balance, now, calls, transfers,
                           committed>>

(***************************************************************************)
(* change_proposal_deposit, change_allowed_recipients, halve_min_quorum,   *)
(* unblock_me                                                              *)
(***************************************************************************)
ChangeProposalDeposit(caller, new_deposit) ==
    IF caller # Contract /\ ActualBalancePanics(balance)
    THEN Panics("change_proposal_deposit", 0)
    ELSE /\ proposal_deposit' =
                IF caller = Contract
                   \/ new_deposit > (ActualBalance(balance) \div MAX_DEPOSIT_DIVISOR)
                THEN proposal_deposit ELSE new_deposit
         /\ last' = Ret("change_proposal_deposit", 0, "Ok", "change_proposal_deposit")
         /\ UNCHANGED <<proposals, min_quorum_divisor, last_time_min_quorum_met,
                        curator, allowed_recipients, blocked, voting_register,
                        sum_of_proposal_deposits, balance, now, stack, gvars>>

\* the AllowedRecipientChanged event
AllowedRecipientChanged(recipient, allowed) ==
    [event |-> "AllowedRecipientChanged", recipient |-> recipient,
     allowed |-> allowed]

\* faulty variant: the caller is not compared with the curator
ChangeAllowedRecipientsByAnyone(caller, recipient, allowed) ==
    /\ allowed_recipients' = [allowed_recipients EXCEPT ![recipient] = allowed]
    /\ last' = Ret("change_allowed_recipients", 0, "Ok",
                   AllowedRecipientChanged(recipient, allowed))
    /\ UNCHANGED <<proposals, min_quorum_divisor, last_time_min_quorum_met,
                   curator, blocked, voting_register, proposal_deposit,
                   sum_of_proposal_deposits, balance, now, stack, gvars>>

\* the event emitted is kept with what the call returned
ChangeAllowedRecipients(caller, recipient, allowed) ==
    IF caller # curator
    THEN /\ last' = Ret("change_allowed_recipients", 0, "CallerIsCurator", "rejected")
         /\ UNCHANGED <<cvars, now, stack, gvars>>
    ELSE /\ allowed_recipients' = [allowed_recipients EXCEPT ![recipient] = allowed]
         /\ last' = Ret("change_allowed_recipients", 0, "Ok",
                        AllowedRecipientChanged(recipient, allowed))
         /\ UNCHANGED <<proposals, min_quorum_divisor, last_time_min_quorum_met,
                        curator, blocked, voting_register, proposal_deposit,
                        sum_of_proposal_deposits, balance, now, stack, gvars>>

HalveMinQuorum(caller) ==
    IF now < QUORUM_HALVING_PERIOD
       \/ ((last_time_min_quorum_met < now - QUORUM_HALVING_PERIOD \/ caller = curator)
              /\ now < MIN_PROPOSAL_DEBATE_PERIOD)
    THEN Panics("halve_min_quorum", 0)
    ELSE IF /\ (last_time_min_quorum_met < now - QUORUM_HALVING_PERIOD \/ caller = curator)
            /\ last_time_min_quorum_met < now - MIN_PROPOSAL_DEBATE_PERIOD
            /\ NumProposals > 1
    THEN /\ last_time_min_quorum_met' = now
         /\ min_quorum_divisor' = min_quorum_divisor * 2
         /\ last' = Ret("halve_min_quorum", 0, "Ok", "halved")
         /\ UNCHANGED <<proposals, curator, allowed_recipients, blocked,
                        voting_register, proposal_deposit,
                        sum_of_proposal_deposits, balance, now, stack, gvars>>
    ELSE /\ last' = Ret("halve_min_quorum", 0, "UnableToHalveQuorum", "rejected")
         /\ UNCHANGED <<cvars, now, stack, gvars>>

\* unblock_me / get_or_modify_blocked
UnblockMe(caller) ==
    LET prop_id == blocked[caller] IN
    IF prop_id = 0
    THEN /\ last' = Ret("unblock_me", 0, "false", "sentinel")
         /\ UNCHANGED <<cvars, now, stack, gvars>>
    ELSE IF ~P(prop_id).open
    THEN /\ blocked' = [blocked EXCEPT ![caller] = 0]
         /\ last' = Ret("unblock_me", prop_id, "false", "closed")
         /\ UNCHANGED <<proposals, min_quorum_divisor, last_time_min_quorum_met,
                        curator, allowed_recipients, voting_register,
                        proposal_deposit, sum_of_proposal_deposits, balance,
                        now, stack, gvars>>
    ELSE /\ last' = Ret("unblock_me", prop_id, "true", "open")
         /\ UNCHANGED <<cvars, now, stack, gvars>>

(***************************************************************************)
(* The contract's messages, called in a transaction of their own or by the *)
(* recipient of a dispatched call while it runs                            *)
(***************************************************************************)
Next ==
    \/ Tick
    \/ \E c \in NewProposalCalls, amount \in Amounts, data \in Payloads :
          /\ NumProposals <= MaxProposals
          /\ NewProposal(c[1], c[2], amount, <<>>, data, c[3], c[4])
    \/ \E caller \in Voters, id \in VoteIds, supports \in BOOLEAN :
          VoteInBounds(caller, id, supports) /\ Vote(caller, id, supports)
    \/ \E caller \in Voters, id \in VoteIds : UnVote(caller, id)
    \/ \E caller \in Voters : UnVoteAll(caller)
    \/ \E id \in Ids, sel \in Selectors, data \in Payloads, gas \in GasLimits :
          ExecuteProposal(id, sel, data, gas)
    \/ DispatchReturns
    \/ \E caller \in DepositCallers, d \in NewDeposits : ChangeProposalDeposit(caller, d)
    \/ \E caller \in Callers, r \in RegistryEntries, allowed \in BOOLEAN :
          ChangeAllowedRecipients(caller, r, allowed)
    \/ \E caller \in Callers : HalveMinQuorum(caller)
    \/ \E caller \in Voters : UnblockMe(caller)
    \/ \E id \in Ids : stack = <<>> /\ VerifyPreSupport(id)
    \/ \E id \in Ids : stack = <<>> /\ CloseProposal(id)

Spec == Init /\ [][Next]_vars

(***************************************************************************)
(* The same contract with a clock that keeps moving, dispatched calls that *)
(* return, and somebody who calls execute_proposal on every proposal that  *)
(* is open after its execution period                                      *)
(***************************************************************************)
\* execute_proposal on a proposal that is open past deadline + grace period
LateExecute(id) ==
    /\ InRange(id)
    /\ P(id).open
    /\ now > P(id).voting_deadline + EXECUTE_PROPOSAL_PERIOD
    /\ \E sel \in Selectors, data \in Payloads, gas \in GasLimits :
          ExecuteProposal(id, sel, data, gas)

\* the messages that create a proposal, move its tallies and flags, and
\* execute it
LiveNext ==
    \/ Tick
    \/ \E amount \in Amounts, data \in Payloads :
          /\ NumProposals <= MaxProposals
          /\ NewProposal(Bob, Curator, amount, <<>>, data, 2 * WEEK, 2)
    \/ \E caller \in Voters, id \in VoteIds, supports \in BOOLEAN :
          VoteInBounds(caller, id, supports) /\ Vote(caller, id, supports)
    \/ \E id \in Ids, sel \in Selectors, data \in Payloads, gas \in GasLimits :
          ExecuteProposal(id, sel, data, gas)
    \/ DispatchReturns
    \/ \E id \in Ids : stack = <<>> /\ VerifyPreSupport(id)

LiveSpec ==
    /\ Init
    /\ [][LiveNext]_vars
    /\ WF_vars(Tick)
    /\ WF_vars(DispatchReturns)
    /\ \A id \in 1 .. MaxProposals : WF_vars(LateExecute(id))

(***************************************************************************)
(* The voting messages with two voters and every proposal_id, the          *)
(* sentinel's 0 included, next to the messages that create and close       *)
(* proposals                                                               *)
(***************************************************************************)
VoteCallers == {Bob, Curator}
\* who votes on what: both voters on every proposal_id from 1 on (one past
\* the store included), one of them on the sentinel's 0 as well
VoteTargets == (VoteCallers \X (1 .. (MaxProposals + 1))) \cup {<<Bob, 0>>}
\* the calls of vote: yes and no on the ids from 1 on, a yes on the sentinel
VoteCalls ==
    (VoteCallers \X (1 .. (MaxProposals + 1)) \X BOOLEAN) \cup {<<Bob, 0, TRUE>>}

VoteNext ==
    \/ Tick
    \/ /\ NumProposals <= MaxProposals
       /\ NewProposal(Bob, Curator, 1, <<>>, <<2, 2>>, 2 * WEEK, 2)
    \/ \E c \in VoteCalls : VoteInBounds(c[1], c[2], c[3]) /\ Vote(c[1], c[2], c[3])
    \/ \E t \in VoteTargets : UnVote(t[1], t[2])
    \/ \E caller \in VoteCallers : UnVoteAll(caller)
    \/ \E id \in Ids, sel \in Selectors, data \in Payloads, gas \in GasLimits :
          ExecuteProposal(id, sel, data, gas)
    \/ DispatchReturns
    \/ \E caller \in VoteCallers : UnblockMe(caller)
    \/ stack = <<>> /\ VerifyPreSupport(1)

VoteSpec == Init /\ [][VoteNext]_vars

(***************************************************************************)
(* new_proposal over a grid of arguments, with a registry that the curator *)
(* changes and a first proposal that has a vote                            *)
(***************************************************************************)
\* <<caller, recipient, amount, transaction_data, debating_period, deposit>>
CreateCalls ==
    {Bob, Contract} \X {Curator, Bob} \X {3} \X {<<2, 2>>}
        \X {2 * WEEK - 1, 2 * WEEK, 8 * WEEK, 8 * WEEK + 1} \X {0, 1, 2}

CreateStep(c) == NewProposal(c[1], c[2], c[3], <<>>, c[4], c[5], c[6])

CreateNext ==
    \/ Tick
    \/ \E c \in CreateCalls : NumProposals <= MaxCreated /\ CreateStep(c)
    \/ \E caller \in Callers, r \in {Curator, Bob}, allowed \in BOOLEAN :
          ChangeAllowedRecipients(caller, r, allowed)
    \/ VoteInBounds(Bob, 1, TRUE) /\ Vote(Bob, 1, TRUE)

CreateSpec == Init /\ [][CreateNext]_vars

(***************************************************************************)
(* halve_min_quorum in a contract constructed at block timestamp 0, where  *)
(* now is at first smaller than the periods the message subtracts from it  *)
(***************************************************************************)
EarlyInit ==
    /\ now = 0
    /\ balance \in InitBalances
    /\ proposal_deposit \in InitDeposits
    /\ curator = Curator
    /\ last_time_min_quorum_met = now
    /\ min_quorum_divisor = INIT_MIN_QUORUM_DIVISOR
    /\ proposals = <<DefaultProposal>>
    /\ allowed_recipients = [a \in Accounts |-> a \in {Contract, Curator}]
    /\ blocked = [a \in Accounts |-> 0]
    /\ voting_register = [a \in Accounts |-> <<>>]
    /\ sum_of_proposal_deposits = 0
    /\ stack = <<>>
    /\ calls = <<>>
    /\ transfers = <<>>
    /\ events = <<>>
    /\ committed = <<>>
    /\ last = Ret("new", 0, "Ok", "new")

\* the block timestamp moves on by a week or by twelve
EarlySteps == {WEEK, 12 * WEEK}

EarlyTick ==
    /\ \E step \in EarlySteps :
          /\ now + step <= MaxEarlyWeeks * WEEK
          /\ now' = now + step
    /\ last' = Ret("tick", 0, "Ok", "tick")
    /\ UNCHANGED <<cvars, stack, gvars>>

EarlyNext ==
    \/ EarlyTick
    \/ /\ NumProposals <= MaxProposals
       /\ NewProposal(Bob, Curator, 3, <<>>, <<2, 2>>, 2 * WEEK, 2)
    \/ \E caller \in Callers : HalveMinQuorum(caller)

EarlySpec == EarlyInit /\ [][EarlyNext]_vars

(***************************************************************************)
(* Definitions the properties are stated with                              *)
(***************************************************************************)
\* the ids of the real proposals in the store
RealIds == 1 .. (NumProposals - 1)
\* the arguments execute_proposal is called with
ExecArgs == Selectors \X Payloads \X GasLimits
\* the step is the call execute_proposal(id, a[1], a[2], a[3])
ExecStep(id, a) == ExecuteProposal(id, a[1], a[2], a[3])
\* the number of entries of `log` (calls, transfers or events) for proposal id
EntriesFor(log, id) == Cardinality({i \in DOMAIN log : log[i].proposal_id = id})
\* the proposals whose execute_proposal is waiting for its dispatch to return
Dispatching == {stack[i].proposal_id : i \in DOMAIN stack}
\* the step leaves the contract, the stack and the logs as they are
NothingChanges == UNCHANGED <<cvars, now, stack, gvars>>

(***************************************************************************)
(* C1                                                                      *)
(***************************************************************************)
DispatchedAtMostOnce == \A id \in RealIds : EntriesFor(calls, id) <= 1

PassedSetOpenBeforeDispatch ==
    \A id \in RealIds :
        (~P(id).proposal_passed /\ P(id)'.proposal_passed)
            => /\ P(id).open /\ P(id)'.open
               /\ EntriesFor(calls, id) = 0
               /\ EntriesFor(calls', id) = 1

GuardSeenDuringDispatch ==
    \A id \in Dispatching : P(id).proposal_passed /\ P(id).open

ReentrantExecuteRejected ==
    \A id \in Dispatching : \A a \in ExecArgs :
        ExecStep(id, a)
            => /\ last'.res = "ProposalExecutionFailed"
               /\ NothingChanges

\* C1: the external call of a proposal is dispatched at most once:
\* proposal_passed becomes true only while the proposal is open and in the
\* step that starts the dispatch, the callee sees it true, and an
\* execute_proposal for the same id during the dispatch returns
\* ProposalExecutionFailed and dispatches, refunds and closes nothing.
C1_SingleDispatch ==
    /\ [](DispatchedAtMostOnce /\ GuardSeenDuringDispatch)
    /\ [][PassedSetOpenBeforeDispatch /\ ReentrantExecuteRejected]_vars

\* a re-entrant execute_proposal for the proposal being dispatched was rejected
C1_Witness ==
    /\ stack # <<>>
    /\ last.op = "execute_proposal"
    /\ last.id \in Dispatching
    /\ last.res = "ProposalExecutionFailed"
    /\ EntriesFor(calls, last.id) = 1

(***************************************************************************)
(* C2                                                                      *)
(***************************************************************************)
RECURSIVE SumOpenDeposits(_, _)
SumOpenDeposits(props, n) ==
    IF n = 0 THEN 0
    ELSE SumOpenDeposits(props, n - 1)
            + (IF props[n].open THEN props[n].proposal_deposit ELSE 0)

LedgerMatchesOpenDeposits ==
    sum_of_proposal_deposits = SumOpenDeposits(proposals, Len(proposals))

NewProposalEscrows ==
    NumProposals' > NumProposals
        => sum_of_proposal_deposits'
              = sum_of_proposal_deposits + proposals'[NumProposals + 1].proposal_deposit

CloseReleasesOnce ==
    \A id \in RealIds :
        CloseProposal(id)
            => sum_of_proposal_deposits'
                  = IF P(id).open
                    THEN sum_of_proposal_deposits - P(id).proposal_deposit
                    ELSE sum_of_proposal_deposits

\* C2: sum_of_proposal_deposits is the sum of proposal_deposit over the open
\* proposals; new_proposal adds the deposit, close_proposal subtracts it
\* when the proposal is open and nothing when it is already closed.
C2_DepositLedger ==
    /\ []LedgerMatchesOpenDeposits
    /\ [][NewProposalEscrows /\ CloseReleasesOnce]_vars

\* a proposal with a deposit was closed and its deposit released
C2_Witness ==
    \E id \in RealIds :
        /\ ~P(id).open
        /\ P(id).proposal_deposit > 0
        /\ sum_of_proposal_deposits = 0

(***************************************************************************)
(* C3                                                                      *)
(***************************************************************************)
CreatedOpen == NumProposals' > NumProposals => proposals'[NumProposals + 1].open
NeverReopened == \A id \in RealIds : ~P(id).open => ~P(id)'.open

\* C3: a proposal is open when new_proposal creates it, and once its open
\* flag is false no step makes it true again.
C3_ClosedOnce == [][CreatedOpen /\ NeverReopened]_vars

\* a closed proposal, after later calls were made on it
C3_Witness ==
    \E id \in RealIds :
        /\ ~P(id).open
        /\ last.op = "execute_proposal" /\ last.id = id
        /\ last.res = "ProposalExecutionFailed"

(***************************************************************************)
(* C4                                                                      *)
(***************************************************************************)
\* the payload starts with the bytes 0x68 0x37 0xff 0x1e
StartsWithSplitBytes(data) ==
    Len(data) >= 4 /\ SubSeq(data, 1, 4) = <<104, 55, 255, 30>>

\* the conditions of a pass, on the state execute_proposal is called in
PassConditions(id, data) ==
    LET p == P(id)
        spendable == balance - sum_of_proposal_deposits
    IN  /\ spendable >= 0
        /\ p.yea >= MinQuorum(p.amount, balance)
        /\ p.yea > p.nay
        /\ p.amount <= spendable
        /\ p.pre_support
        /\ StartsWithSplitBytes(data) => p.yea >= MinQuorum(spendable, balance)

DispatchOnlyOnPass ==
    \A id \in RealIds : \A a \in ExecArgs :
        (ExecStep(id, a)
            /\ (calls' # calls \/ P(id)'.proposal_passed # P(id).proposal_passed))
          => /\ PassConditions(id, a[2])
             /\ EntriesFor(calls', id) = EntriesFor(calls, id) + 1
             /\ P(id)'.proposal_passed

\* C4: execute_proposal dispatches the external call and sets
\* proposal_passed only if, in the state it is called in, yea is at least
\* min_quorum(amount), yea > nay, the amount is within the spendable
\* balance, pre_support is true and, for a payload that starts with the
\* split selector, yea is at least min_quorum(spendable balance).
C4_DispatchOnlyOnPass == [][DispatchOnlyOnPass]_vars

\* a call was dispatched for a proposal that execute_proposal found passed
C4_Witness ==
    /\ last.op = "execute_proposal" /\ last.path = "dispatching"
    /\ EntriesFor(calls, last.id) = 1
    /\ P(last.id).proposal_passed /\ P(last.id).pre_support

(***************************************************************************)
(* C5                                                                      *)
(***************************************************************************)
\* now is past the deadline and the execution period of an open proposal
LateCleanupApplies(id) ==
    P(id).open /\ now > P(id).voting_deadline + 10 * DAY

\* one of the reasons for which the validation fails
ValidationFails(id, data) ==
    \/ now < P(id).voting_deadline
    \/ ~P(id).open
    \/ P(id).proposal_passed
    \/ data # committed[id]

RejectedChangesNothing ==
    \A id \in RealIds : \A a \in ExecArgs :
        (ExecStep(id, a) /\ ~LateCleanupApplies(id) /\ ValidationFails(id, a[2]))
          => /\ last'.res = "ProposalExecutionFailed"
             /\ NothingChanges

OnlyCommittedPayloadDispatched ==
    \A i \in DOMAIN calls : calls[i].data = committed[calls[i].proposal_id]

\* C5: outside the late cleanup, execute_proposal returns
\* ProposalExecutionFailed and changes nothing when now is before the
\* deadline, the proposal is closed or already passed, or the payload is not
\* the one the proposal was created with; no other payload is ever dispatched.
C5_RejectedExecution ==
    /\ []OnlyCommittedPayloadDispatched
    /\ [][RejectedChangesNothing]_vars

\* an execute_proposal with the wrong payload was rejected: the proposal is
\* open, not passed, at or past its deadline and inside the execution period
C5_Witness ==
    /\ last.op = "execute_proposal" /\ last.res = "ProposalExecutionFailed"
    /\ last.id \in RealIds
    /\ P(last.id).open /\ ~P(last.id).proposal_passed
    /\ now >= P(last.id).voting_deadline
    /\ ~LateCleanupApplies(last.id)

(***************************************************************************)
(* C6                                                                      *)
(***************************************************************************)
LateCleanupOnlyCloses ==
    \A id \in RealIds : \A a \in ExecArgs :
        (ExecStep(id, a) /\ LateCleanupApplies(id))
          => /\ last'.res = "Ok"
             /\ ~P(id)'.open
             /\ P(id)'.proposal_passed = P(id).proposal_passed
             /\ UNCHANGED <<calls, transfers, balance, last_time_min_quorum_met>>

\* C6: for an open proposal past its deadline plus the execution period of
\* 10 days, execute_proposal with any selector and payload closes the
\* proposal and returns Ok; it dispatches nothing, refunds nothing and leaves
\* proposal_passed and last_time_min_quorum_met as they are.
C6_LateCleanup == [][LateCleanupOnlyCloses]_vars

\* the late cleanup closed a proposal whose dispatch had failed
C6_Witness ==
    /\ last.op = "execute_proposal" /\ last.res = "Ok" /\ last.path = "late"
    /\ ~P(last.id).open /\ P(last.id).proposal_passed
    /\ now > P(last.id).voting_deadline + 10 * DAY

(***************************************************************************)
(* C7                                                                      *)
(***************************************************************************)
DisallowedRecipientGetsDepositReturn ==
    \A id \in RealIds : \A a \in ExecArgs :
        (ExecStep(id, a) /\ ~LateCleanupApplies(id) /\ ~ValidationFails(id, a[2])
            /\ ~allowed_recipients[P(id).recipient])
          => /\ last'.res = "Ok"
             /\ transfers' = Append(transfers,
                    [proposal_id |-> id, to |-> P(id).creator,
                     value |-> P(id).proposal_deposit])
             /\ balance' = balance - P(id).proposal_deposit
             /\ ~P(id)'.open
             /\ ~P(id)'.proposal_passed
             /\ UNCHANGED <<calls, stack>>

\* C7: when execute_proposal passes the validation and the recipient is not
\* on the registry, the creator gets exactly the deposit back, the proposal
\* is closed, Ok is returned, nothing is dispatched and proposal_passed
\* stays false, whatever the tallies.
C7_DepositReturn == [][DisallowedRecipientGetsDepositReturn]_vars

\* the deposit was returned for a proposal with a majority and pre-support
\* whose recipient had been taken off the registry
C7_Witness ==
    /\ last.op = "execute_proposal" /\ last.res = "Ok"
    /\ last.path = "deposit_return"
    /\ ~allowed_recipients[P(last.id).recipient]
    /\ P(last.id).yea > P(last.id).nay /\ P(last.id).pre_support
    /\ \E i \in DOMAIN transfers : transfers[i].proposal_id = last.id

(***************************************************************************)
(* C8                                                                      *)
(***************************************************************************)
\* execute_proposal(id, .., data, ..) is on the validated path for an
\* allowed recipient
ValidatedAllowed(id, data) ==
    /\ ~LateCleanupApplies(id)
    /\ ~ValidationFails(id, data)
    /\ allowed_recipients[P(id).recipient]

QuorumDecidesRefund ==
    \A id \in RealIds : \A a \in ExecArgs :
        (ExecStep(id, a) /\ ValidatedAllowed(id, a[2]))
          => IF P(id).yea >= MinQuorum(P(id).amount, balance)
             THEN /\ transfers' = Append(transfers,
                         [proposal_id |-> id, to |-> P(id).creator,
                          value |-> P(id).proposal_deposit])
                  /\ last_time_min_quorum_met' = now
             ELSE UNCHANGED <<transfers, last_time_min_quorum_met>>

\* C8: on the validated path for an allowed recipient, a tally of at least
\* min_quorum(amount) has the deposit refunded to the creator and
\* last_time_min_quorum_met set to now, whether or not the proposal passes;
\* a smaller tally leaves both as they are.
C8_QuorumRefund == [][QuorumDecidesRefund]_vars

\* an execute_proposal with the quorum met aborted: the refund leaves the
\* balance below sum_of_proposal_deposits, and the second min_quorum
\* underflows in actual_balance
C8_Witness ==
    /\ last.op = "execute_proposal" /\ last.res = "panic"
    /\ last.id \in RealIds
    /\ ValidatedAllowed(last.id, committed[last.id])
    /\ P(last.id).yea >= MinQuorum(P(last.id).amount, balance)
    /\ balance - P(last.id).proposal_deposit < sum_of_proposal_deposits

(***************************************************************************)
(* C9                                                                      *)
(***************************************************************************)
\* the step is an execute_proposal whose dispatched call failed: a call was
\* dispatched and execute_proposal is not waiting for it
FailedDispatchStep(id, a) ==
    /\ ExecStep(id, a)
    /\ calls' # calls
    /\ stack' = stack

FailedDispatchLeavesOpenPassed ==
    \A id \in RealIds : \A a \in ExecArgs :
        FailedDispatchStep(id, a)
          => /\ last'.res = "TransactionFailed"
             /\ P(id)'.open
             /\ P(id)'.proposal_passed

\* proposal id was dispatched and its execute_proposal returned an error
DispatchFailed(id) ==
    /\ EntriesFor(calls, id) >= 1
    /\ id \notin Dispatching
    /\ P(id).open

NoDispatchAfterFailure ==
    \A id \in RealIds : \A a \in ExecArgs :
        (DispatchFailed(id) /\ ExecStep(id, a))
          => /\ calls' = calls
             /\ transfers' = transfers
             /\ IF now > P(id).voting_deadline + 10 * DAY
                THEN last'.res = "Ok" /\ ~P(id)'.open
                ELSE last'.res = "ProposalExecutionFailed" /\ NothingChanges

\* C9: when the dispatched call fails, execute_proposal returns
\* TransactionFailed and the proposal stays open with proposal_passed true;
\* after that an execute_proposal for it never dispatches again: inside the
\* execution period it returns ProposalExecutionFailed and changes nothing,
\* after it it only closes the proposal.
C9_FailedDispatch ==
    /\ [](\A id \in RealIds : DispatchFailed(id) => P(id).proposal_passed)
    /\ [][FailedDispatchLeavesOpenPassed /\ NoDispatchAfterFailure]_vars

\* after a failed dispatch a second execute_proposal was rejected
C9_Witness ==
    /\ stack = <<>>
    /\ last.op = "execute_proposal" /\ last.res = "ProposalExecutionFailed"
    /\ last.id \in RealIds
    /\ DispatchFailed(last.id)
    /\ now >= P(last.id).voting_deadline

(***************************************************************************)
(* C10                                                                     *)
(***************************************************************************)
\* the step is an execute_proposal call returning, at once or after its
\* dispatched call
ExecReturns ==
    \/ \E id \in Ids : \E a \in ExecArgs : ExecStep(id, a) /\ last'.res # "pending"
    \/ DispatchReturns

SuccessLeavesClosed ==
    (ExecReturns /\ last'.res = "Ok")
        => last'.id \in RealIds /\ ~proposals'[last'.id + 1].open

\* the proposal passed in the call that returns in this step
PassedInThisCall(id) ==
    \/ (id \in Dispatching /\ DispatchReturns)
    \/ (~P(id).proposal_passed /\ P(id)'.proposal_passed)

\* a validated call for an allowed recipient returns Ok in this step
ValidatedReturnsOk(id) ==
    \/ /\ stack # <<>> /\ stack[Len(stack)].proposal_id = id /\ DispatchReturns
    \/ \E a \in ExecArgs :
          ExecStep(id, a) /\ ValidatedAllowed(id, a[2]) /\ last'.res = "Ok"

\* the yea tally the call counted
TallyCounted(id) ==
    IF stack # <<>> /\ stack[Len(stack)].proposal_id = id /\ DispatchReturns
    THEN stack[Len(stack)].quorum
    ELSE P(id).yea

TalliedOnce ==
    \A id \in RealIds :
        ValidatedReturnsOk(id)
          => /\ events' = Append(events,
                    [proposal_id |-> id, result |-> PassedInThisCall(id),
                     quorum |-> TallyCounted(id)])
             /\ EntriesFor(events, id) = 0

\* C10: an execute_proposal that returns Ok leaves the proposal closed; on
\* the validated path for an allowed recipient it emits exactly one
\* ProposalTallied for the id, with the yea tally as quorum and with the
\* passed field true exactly when the proposal passed in this call.
C10_TalliedEvent == [][SuccessLeavesClosed /\ TalliedOnce]_vars

\* a proposal that did not pass was tallied and closed
C10_Witness ==
    /\ last.op = "execute_proposal" /\ last.res = "Ok"
    /\ last.path = "not_passed"
    /\ ~P(last.id).open /\ ~P(last.id).proposal_passed
    /\ \E i \in DOMAIN events : events[i].proposal_id = last.id

(***************************************************************************)
(* min_quorum as a function of its argument, the divisor, the balance and  *)
(* the deposits held                                                       *)
(***************************************************************************)
\* the divisor after construction and after one and two halvings
QuorumDivisors == {INIT_MIN_QUORUM_DIVISOR, 2 * INIT_MIN_QUORUM_DIVISOR,
                   4 * INIT_MIN_QUORUM_DIVISOR}
\* sum_of_proposal_deposits: nothing, or the deposit of one open proposal
QuorumDeposits == {0, 1, 2}

MinQuorumInit ==
    /\ now = StartTime
    /\ balance \in 0 .. MaxQuorumBalance
    /\ proposal_deposit \in InitDeposits
    /\ curator = Curator
    /\ last_time_min_quorum_met = now
    /\ min_quorum_divisor \in QuorumDivisors
    /\ proposals = <<DefaultProposal>>
    /\ allowed_recipients = [a \in Accounts |-> a \in {Contract, Curator}]
    /\ blocked = [a \in Accounts |-> 0]
    /\ voting_register = [a \in Accounts |-> <<>>]
    /\ sum_of_proposal_deposits \in QuorumDeposits
    /\ stack = <<>>
    /\ calls = <<>>
    /\ transfers = <<>>
    /\ events = <<>>
    /\ committed = <<>>
    /\ last = Ret("new", 0, "Ok", "new")

\* min_quorum(value): the result, or the panic of actual_balance
MinQuorumCall(value) ==
    /\ last' = IF ActualBalancePanics(balance)
               THEN Ret("min_quorum", value, "panic", "panic")
               ELSE Ret("min_quorum", value, MinQuorum(value, balance), "min_quorum")
    /\ UNCHANGED <<cvars, now, stack, gvars>>

MinQuorumNext == \E value \in 0 .. MaxQuorumValue : MinQuorumCall(value)

MinQuorumSpec == MinQuorumInit /\ [][MinQuorumNext]_vars

(***************************************************************************)
(* C11                                                                     *)
(***************************************************************************)
\* proposal id's tallies count its flags, and no address has both flags
TalliesCountFlags(id) ==
    /\ P(id).yea = Cardinality(P(id).voted_yes)
    /\ P(id).nay = Cardinality(P(id).voted_no)
    /\ P(id).voted_yes \cap P(id).voted_no = {}

\* C11: after any sequence of vote and un_vote calls, at any timestamps,
\* every address contributes at most one unit to a proposal: yea is the
\* number of addresses with voted_yes, nay the number with voted_no, and no
\* address has both flags.
C11_OneUnitPerAddress == \A id \in RealIds : TalliesCountFlags(id)

\* one address is counted twice in yea: it voted yes before the deadline and
\* again at or after it
C11_Witness ==
    \E id \in RealIds :
        /\ now >= P(id).voting_deadline
        /\ P(id).yea = 2
        /\ Cardinality(P(id).voted_yes) = 1

(***************************************************************************)
(* C12                                                                     *)
(***************************************************************************)
\* the tallies and the flags of proposal id are as they were
TalliesAndFlagsUnchanged(id) ==
    /\ P(id)'.yea = P(id).yea
    /\ P(id)'.nay = P(id).nay
    /\ P(id)'.voted_yes = P(id).voted_yes
    /\ P(id)'.voted_no = P(id).voted_no

LateVoteChangesNothing ==
    \A caller \in VoteCallers : \A id \in RealIds : \A supports \in BOOLEAN :
        (Vote(caller, id, supports) /\ now >= P(id).voting_deadline)
          => TalliesAndFlagsUnchanged(id)

\* C12: a vote made at or after the proposal's voting_deadline is rejected:
\* the proposal's yea, nay, voted_yes and voted_no stay as they were.
C12_LateVoteRejected == [][LateVoteChangesNothing]_vars

\* a vote was counted on a proposal whose deadline had been reached before
\* anybody voted
C12_Witness ==
    \E id \in RealIds :
        /\ now = P(id).voting_deadline
        /\ P(id).yea + P(id).nay = 1
        /\ blocked[Bob] = id

(***************************************************************************)
(* C13                                                                     *)
(***************************************************************************)
\* every index of the store, the sentinel's included
StoredIds == 0 .. (NumProposals - 1)

\* 1 when the flag is set, 0 otherwise
Unit(flag) == IF flag THEN 1 ELSE 0

\* what un_vote(id) by caller does before the deadline
UnVoteTakesBack(caller, id) ==
    /\ P(id)'.yea = P(id).yea - Unit(caller \in P(id).voted_yes)
    /\ P(id)'.nay = P(id).nay - Unit(caller \in P(id).voted_no)
    /\ caller \notin P(id)'.voted_yes
    /\ caller \notin P(id)'.voted_no
    /\ P(id)'.voted_yes \ {caller} = P(id).voted_yes \ {caller}
    /\ P(id)'.voted_no \ {caller} = P(id).voted_no \ {caller}
    /\ P(id)' = [P(id) EXCEPT !.yea = P(id)'.yea, !.nay = P(id)'.nay,
                              !.voted_yes = P(id)'.voted_yes,
                              !.voted_no = P(id)'.voted_no]
    /\ NumProposals' = NumProposals
    /\ \A j \in StoredIds : j # id => P(j)' = P(j)
    /\ (caller \notin (P(id).voted_yes \cup P(id).voted_no)) => proposals' = proposals

UnVoteRule ==
    \A caller \in VoteCallers : \A id \in StoredIds :
        UnVote(caller, id)
          => /\ IF now >= P(id).voting_deadline
                THEN proposals' = proposals
                ELSE UnVoteTakesBack(caller, id)
             /\ UNCHANGED <<min_quorum_divisor, last_time_min_quorum_met,
                            curator, allowed_recipients, blocked,
                            voting_register, proposal_deposit,
                            sum_of_proposal_deposits, balance, now, stack,
                            gvars>>

TalliesNotNegative == \A id \in StoredIds : P(id).yea >= 0 /\ P(id).nay >= 0

\* C13: un_vote(id) at or after the deadline changes nothing; before it, yea
\* drops by one iff the caller's voted_yes was set, nay by one iff voted_no
\* was set, the caller's flags are cleared, every other voter's flags and
\* every other proposal stay as they were, a caller who never voted changes
\* nothing, and no tally goes below zero.
C13_UnVote == []TalliesNotNegative /\ [][UnVoteRule]_vars

\* before the deadline bob voted on a proposal and took the vote back, while
\* the curator's yes vote on it still counts
C13_Witness ==
    \E id \in RealIds :
        /\ now < P(id).voting_deadline
        /\ blocked[Bob] = id
        /\ Bob \notin (P(id).voted_yes \cup P(id).voted_no)
        /\ P(id).voted_yes = {Curator}
        /\ P(id).yea = 1 /\ P(id).nay = 0

(***************************************************************************)
(* C14                                                                     *)
(***************************************************************************)
\* the call c of new_proposal has an allowed recipient, a debate period in
\* [2 weeks, 8 weeks], a deposit of at least the minimum and a caller other
\* than the contract
ValidCreate(c) ==
    /\ allowed_recipients[c[2]]
    /\ c[5] >= 2 * WEEK
    /\ c[5] <= 8 * WEEK
    /\ c[6] >= proposal_deposit
    /\ c[1] # Contract

\* number_of_proposals()
NumberOfProposals == NumProposals - 1

ValidCreateAppends ==
    \A c \in CreateCalls :
        (CreateStep(c) /\ ValidCreate(c))
          => /\ last'.op = "new_proposal"
             /\ last'.res = "Ok"
             /\ last'.id = NumberOfProposals + 1
             /\ NumProposals' = NumProposals + 1
             /\ LET new == proposals'[NumProposals + 1] IN
                  /\ new.open
                  /\ ~new.proposal_passed
                  /\ new.yea = 0 /\ new.nay = 0
                  /\ new.voted_yes = {} /\ new.voted_no = {}
                  /\ new.voting_deadline = now + c[5]
                  /\ new.creator = c[1]
                  /\ new.recipient = c[2]
                  /\ new.amount = c[3]
                  /\ new.proposal_deposit = c[6]
                  /\ new.proposal_hash = HashEncoded(c[2], c[3], c[4])
             /\ sum_of_proposal_deposits' = sum_of_proposal_deposits + c[6]
             /\ \A j \in StoredIds : proposals'[j + 1] = P(j)

\* C14: a new_proposal call with an allowed recipient, a debate period in
\* [2 weeks, 8 weeks], a deposit >= the minimum and a caller other than the
\* contract succeeds, returns number_of_proposals + 1, appends an open,
\* not passed record with zero tallies, voting_deadline = now + period,
\* creator = caller and the commitment over (recipient, amount, payload),
\* adds exactly the deposit to sum_of_proposal_deposits and leaves the
\* existing proposals as they were.
C14_ValidCreate == [][ValidCreateAppends]_vars

\* a second proposal was just created, with the minimum deposit, next to a
\* first one that has a vote
C14_Witness ==
    /\ last.op = "new_proposal" /\ last.res = "Ok" /\ last.id = 2
    /\ NumProposals = 3
    /\ P(1).yea = 1
    /\ P(2).proposal_deposit = proposal_deposit
    /\ P(2).open

(***************************************************************************)
(* C15                                                                     *)
(***************************************************************************)
\* the call c of new_proposal has a recipient that is not on the registry,
\* a debate period below 2 weeks or above 8 weeks, a deposit below the
\* minimum, or the contract as its caller
InvalidCreate(c) ==
    \/ ~allowed_recipients[c[2]]
    \/ c[5] < 2 * WEEK
    \/ c[5] > 8 * WEEK
    \/ c[6] < proposal_deposit
    \/ c[1] = Contract

InvalidCreateRejected ==
    \A c \in CreateCalls :
        (CreateStep(c) /\ InvalidCreate(c))
          => /\ last'.op = "new_proposal"
             /\ last'.res = "ProposalCreationFailed"
             /\ UNCHANGED <<proposals, sum_of_proposal_deposits,
                            last_time_min_quorum_met>>

\* C15: new_proposal returns ProposalCreationFailed and leaves the proposal
\* store, sum_of_proposal_deposits and last_time_min_quorum_met unchanged
\* whenever the recipient is not on the registry, the debate period is below
\* 2 weeks or above 8 weeks, the deposit is below the minimum, or the caller
\* is the contract itself.
C15_InvalidCreate == [][InvalidCreateRejected]_vars

\* a call was rejected while a proposal exists and the curator has been
\* taken off the registry
C15_Witness ==
    /\ last.op = "new_proposal" /\ last.res = "ProposalCreationFailed"
    /\ NumProposals = 2
    /\ ~allowed_recipients[Curator]
    /\ sum_of_proposal_deposits = P(1).proposal_deposit

(***************************************************************************)
(* C16                                                                     *)
(***************************************************************************)
\* the record at index 0 is closed, without tallies and without flags
SentinelIsNull ==
    /\ ~P(0).open
    /\ P(0).yea = 0 /\ P(0).nay = 0
    /\ P(0).voted_yes = {} /\ P(0).voted_no = {}

\* number_of_proposals() is the number of new_proposal calls that succeeded
CountsCreations == NumberOfProposals = Len(committed)

\* C16: index 0 of the proposal store is a null sentinel in every reachable
\* state, after any public operations with any proposal_id (0 included):
\* not open, zero tallies, no vote flags; and number_of_proposals equals the
\* number of successful new_proposal calls.
C16_SentinelNull == SentinelIsNull /\ CountsCreations

\* the sentinel carries a yes vote of bob while a real proposal exists
C16_Witness ==
    /\ P(0).yea = 1
    /\ P(0).voted_yes = {Bob}
    /\ NumberOfProposals = 1
    /\ ~P(0).open

(***************************************************************************)
(* C17                                                                     *)
(***************************************************************************)
\* more than `period` has passed since last_time_min_quorum_met
Elapsed(period) == last_time_min_quorum_met + period < now

\* the condition under which halve_min_quorum is to succeed
MayHalve(caller) ==
    /\ (Elapsed(25 * WEEK) \/ caller = curator)
    /\ Elapsed(2 * WEEK)
    /\ NumberOfProposals >= 1

HalveRule ==
    \A caller \in Callers :
        HalveMinQuorum(caller)
          => IF MayHalve(caller)
             THEN /\ last'.res = "Ok"
                  /\ min_quorum_divisor' = 2 * min_quorum_divisor
                  /\ last_time_min_quorum_met' = now
             ELSE /\ last'.res = "UnableToHalveQuorum"
                  /\ NothingChanges

\* C17: halve_min_quorum succeeds exactly when (25 weeks have elapsed since
\* last_time_min_quorum_met or the caller is the curator) and 2 weeks have
\* elapsed since last_time_min_quorum_met and a real proposal exists; it
\* then doubles min_quorum_divisor and sets last_time_min_quorum_met to now;
\* otherwise, for every now, timestamps smaller than the two periods
\* included, it returns UnableToHalveQuorum and changes nothing.
C17_HalveMinQuorum == [][HalveRule]_vars

\* halve_min_quorum aborted at a timestamp smaller than both periods
C17_Witness ==
    /\ last.op = "halve_min_quorum" /\ last.res = "panic"
    /\ now < 2 * WEEK
    /\ min_quorum_divisor = INIT_MIN_QUORUM_DIVISOR

(***************************************************************************)
(* C18                                                                     *)
(***************************************************************************)
\* the balance above the deposits held
SpendableBalance == balance - sum_of_proposal_deposits

\* total_voting_weight / min_quorum_divisor
\*     + (value * total_voting_weight) / (3 * spendable_balance)
NominalMinQuorum(value) ==
    (1 \div min_quorum_divisor) + ((value * 1) \div (3 * SpendableBalance))

\* C18: for every value, divisor and spendable balance in the ranges,
\* min_quorum(value) equals total_voting_weight / min_quorum_divisor +
\* (value * total_voting_weight) / (3 * spendable_balance), with integer
\* division and total_voting_weight = 1.
C18_NominalMinQuorum ==
    (last.op = "min_quorum" /\ SpendableBalance > 0)
        => last.res = NominalMinQuorum(last.id)

\* min_quorum(3) with a spendable balance of 3 returned 3, where the nominal
\* formula gives 0
C18_Witness ==
    /\ last.op = "min_quorum" /\ last.id = 3
    /\ SpendableBalance = 3
    /\ last.res = 3
    /\ NominalMinQuorum(3) = 0

(***************************************************************************)
(* C19                                                                     *)
(***************************************************************************)
RegistryCallRule ==
    \A caller \in Callers : \A r \in RegistryEntries : \A allowed \in BOOLEAN :
        ChangeAllowedRecipients(caller, r, allowed)
          => IF caller = curator
             THEN /\ last'.res = "Ok"
                  /\ allowed_recipients'[r] = allowed
                  /\ \A a \in Accounts \ {r} :
                        allowed_recipients'[a] = allowed_recipients[a]
                  /\ last'.path = [event |-> "AllowedRecipientChanged",
                                   recipient |-> r, allowed |-> allowed]
             ELSE /\ last'.res = "CallerIsCurator"
                  /\ allowed_recipients' = allowed_recipients

\* a step that changes the registry is a call of the curator
RegistryChangedByCuratorOnly ==
    (allowed_recipients' # allowed_recipients)
        => \E r \in RegistryEntries, allowed \in BOOLEAN :
              ChangeAllowedRecipients(curator, r, allowed)

CuratorNeverChanges == curator' = curator

\* C19: change_allowed_recipients called by an address other than the
\* curator returns CallerIsCurator and leaves the registry unchanged; called
\* by the curator it sets the given address's entry to the given value,
\* leaves every other entry unchanged and emits AllowedRecipientChanged; no
\* other operation changes the registry or the curator.
C19_RegistryByCurator ==
    /\ [][RegistryCallRule]_vars
    /\ [][RegistryChangedByCuratorOnly]_vars
    /\ [][CuratorNeverChanges]_vars

\* the curator has just taken itself off the registry
C19_Witness ==
    /\ last.op = "change_allowed_recipients" /\ last.res = "Ok"
    /\ last.path = AllowedRecipientChanged(Curator, FALSE)
    /\ ~allowed_recipients[Curator]
    /\ allowed_recipients[Contract]

(***************************************************************************)
(* C20                                                                     *)
(***************************************************************************)
\* the open proposals on which voter has a flag set
ActiveVotes(voter) ==
    {id \in RealIds : P(id).open /\ voter \in (P(id).voted_yes \cup P(id).voted_no)}

BlockedNamesLatest(voter) ==
    ActiveVotes(voter) # {}
        => /\ blocked[voter] # 0
           /\ blocked[voter] \in ActiveVotes(voter)
           /\ \A id \in ActiveVotes(voter) :
                 P(id).voting_deadline <= P(blocked[voter]).voting_deadline

\* C20: in every reachable state, a voter with an active vote (voted_yes or
\* voted_no set) on at least one open proposal has a non-zero
\* blocked[voter], naming the proposal with the latest voting deadline among
\* the voter's active votes.
C20_BlockedNamesLatest == \A voter \in VoteCallers : BlockedNamesLatest(voter)

\* bob's vote on an open proposal still counts before the deadline, and his
\* blocked entry is 0
C20_Witness ==
    \E id \in RealIds :
        /\ P(id).open
        /\ now < P(id).voting_deadline
        /\ Bob \in P(id).voted_yes
        /\ P(id).yea = 1
        /\ blocked[Bob] = 0

(***************************************************************************)
(* C21                                                                     *)
(***************************************************************************)
\* everything but the blocked map stays as it was
OnlyBlockedChanges ==
    UNCHANGED <<proposals, min_quorum_divisor, last_time_min_quorum_met,
                curator, allowed_recipients, voting_register,
                proposal_deposit, sum_of_proposal_deposits, balance, now,
                stack, gvars>>

\* unblock_me with the pointer at the sentinel or at a closed proposal
UnblockFalseRule ==
    \A caller \in VoteCallers :
        UnblockMe(caller)
          => /\ (blocked[caller] = 0)
                  => (last'.res = "false" /\ NothingChanges)
             /\ (blocked[caller] # 0 /\ ~P(blocked[caller]).open)
                  => /\ last'.res = "false"
                     /\ blocked' = [blocked EXCEPT ![caller] = 0]
                     /\ OnlyBlockedChanges

\* unblock_me of a caller with a vote on an open proposal
UnblockTrueRule ==
    \A caller \in VoteCallers :
        (UnblockMe(caller) /\ ActiveVotes(caller) # {})
          => last'.res = "true"

\* C21: unblock_me returns false when the caller's blocked pointer is the
\* sentinel or names a closed proposal (resetting the pointer to the
\* sentinel in the latter case and changing nothing else), and returns true
\* whenever the caller still has a vote on a proposal that remains open.
C21_UnblockMe == [][UnblockFalseRule]_vars /\ [][UnblockTrueRule]_vars

\* unblock_me has just returned false to a caller whose vote on an open
\* proposal still counts
C21_Witness ==
    /\ last.op = "unblock_me" /\ last.res = "false"
    /\ \E caller \in VoteCallers :
          /\ blocked[caller] = 0
          /\ ActiveVotes(caller) # {}
          /\ ActiveVotes(IF caller = Bob THEN Curator ELSE Bob) = {}

(***************************************************************************)
(* C22                                                                     *)
(***************************************************************************)
\* vote appends the proposal id to the caller's register
VoteRegisters ==
    \A t \in VoteTargets : \A supports \in BOOLEAN :
        (Vote(t[1], t[2], supports) /\ InRange(t[2]))
          => voting_register'[t[1]] = Append(voting_register[t[1]], t[2])

\* un_vote_all revokes the caller's votes on the proposals before their
\* deadline, leaves the other tallies, empties the register and the pointer
UnVoteAllRevokes ==
    \A caller \in VoteCallers :
        UnVoteAll(caller)
          => /\ \A id \in RealIds :
                  IF now < P(id).voting_deadline
                  THEN /\ caller \notin (P(id)'.voted_yes \cup P(id)'.voted_no)
                       /\ P(id)'.yea = P(id).yea - Unit(caller \in P(id).voted_yes)
                       /\ P(id)'.nay = P(id).nay - Unit(caller \in P(id).voted_no)
                  ELSE P(id)' = P(id)
             /\ voting_register'[caller] = <<>>
             /\ blocked'[caller] = 0

\* C22: vote appends the proposal id to the caller's voting_register, and
\* un_vote_all revokes every vote of the caller on a proposal whose deadline
\* has not passed: no flag of the caller stays set there, those tallies drop
\* by exactly the caller's contributions, the other tallies are unchanged,
\* the caller's register is empty and blocked[caller] is 0.
C22_RegisterAndUnVoteAll == [][VoteRegisters]_vars /\ [][UnVoteAllRevokes]_vars

\* bob has voted before the deadline and his register is empty
C22_Witness ==
    \E id \in RealIds :
        /\ now < P(id).voting_deadline
        /\ Bob \in P(id).voted_yes
        /\ blocked[Bob] = id
        /\ voting_register[Bob] = <<>>

(***************************************************************************)
(* C23                                                                     *)
(***************************************************************************)
ClosedRecordsKept ==
    \A id \in RealIds : ~P(id).open => P(id)' = P(id)

\* C23: once a proposal's open flag is false, no later operation changes any
\* field of its record, its yea and nay tallies and vote flags included.
C23_ClosedImmutable == [][ClosedRecordsKept]_vars

\* a proposal was tallied and closed with no yes vote, and has one now
C23_Witness ==
    \E id \in RealIds :
        /\ ~P(id).open
        /\ \E i \in DOMAIN events :
              events[i].proposal_id = id /\ events[i].quorum = 0
        /\ P(id).yea = 1
        /\ P(id).voted_yes = {Bob}

(***************************************************************************)
(* C24                                                                     *)
(***************************************************************************)
\* more weight in favour than opposed, and more than the pre-support window
\* of 2 days left until the voting deadline
StableSupport(id) ==
    /\ P(id).yea > P(id).nay
    /\ P(id).voting_deadline - now > 2 * DAY

PreSupportEvaluated ==
    \A id \in RealIds :
        VerifyPreSupport(id) => (P(id)'.pre_support <=> StableSupport(id))

\* pre_support is false at creation and written by verify_pre_support only
PreSupportWrittenByVerify ==
    /\ NumProposals' > NumProposals => ~proposals'[NumProposals + 1].pre_support
    /\ \A id \in RealIds :
          P(id)'.pre_support # P(id).pre_support => VerifyPreSupport(id)

\* C24: pre_support is true only if, when verify_pre_support last evaluated
\* it, yea > nay and the time left until the voting deadline exceeded the
\* pre-support window of 2 days; otherwise it is false.
C24_PreSupport == [][PreSupportEvaluated]_vars /\ [][PreSupportWrittenByVerify]_vars

\* verify_pre_support has just set pre_support on a proposal with no yes
\* vote and one no vote
C24_Witness ==
    /\ last.op = "verify_pre_support" /\ last.res = "Ok"
    /\ last.id \in RealIds
    /\ P(last.id).pre_support
    /\ P(last.id).yea = 0
    /\ P(last.id).nay = 1

(***************************************************************************)
(* C25                                                                     *)
(***************************************************************************)
\* the clock alone closes nothing
TickClosesNothing == Tick => proposals' = proposals

\* proposal id exists / exists and is closed
Created(id) == InRange(id)
Closed(id) == InRange(id) /\ ~P(id).open

\* C25: nothing closes a proposal automatically, but with a clock that keeps
\* advancing and execute_proposal eventually called on each proposal that is
\* open after its deadline plus grace period, every created proposal is
\* eventually closed, whatever its tallies, payload, passed flag or earlier
\* failed execution attempts.
C25_EventuallyClosed ==
    /\ [][TickClosesNothing]_vars
    /\ \A id \in 1 .. MaxProposals : Created(id) ~> Closed(id)

\* a proposal with a no vote whose dispatch had failed stayed open through
\* the execution period and is closed now
C25_Witness ==
    \E id \in RealIds :
        /\ ~P(id).open
        /\ P(id).proposal_passed
        /\ P(id).nay = 1
        /\ EntriesFor(calls, id) = 1
        /\ EntriesFor(events, id) = 0
        /\ now > P(id).voting_deadline + EXECUTE_PROPOSAL_PERIOD

(***************************************************************************)
(* C26                                                                     *)
(***************************************************************************)
\* the contract is constructed with a balance equal to the deposit that the
\* proposals of LiveNext transfer
EscrowBalances == {2}

EscrowInit ==
    /\ now = StartTime
    /\ balance \in EscrowBalances
    /\ proposal_deposit \in InitDeposits
    /\ curator = Curator
    /\ last_time_min_quorum_met = now
    /\ min_quorum_divisor = INIT_MIN_QUORUM_DIVISOR
    /\ proposals = <<DefaultProposal>>
    /\ allowed_recipients = [a \in Accounts |-> a \in {Contract, Curator}]
    /\ blocked = [a \in Accounts |-> 0]
    /\ voting_register = [a \in Accounts |-> <<>>]
    /\ sum_of_proposal_deposits = 0
    /\ stack = <<>>
    /\ calls = <<>>
    /\ transfers = <<>>
    /\ events = <<>>
    /\ committed = <<>>
    /\ last = Ret("new", 0, "Ok", "new")

EscrowSpec == EscrowInit /\ [][LiveNext]_vars

\* the deposits of the first n stored proposals that were not transferred back
RECURSIVE SumUnrefunded(_)
SumUnrefunded(n) ==
    IF n <= 1 THEN 0
    ELSE SumUnrefunded(n - 1)
            + (IF EntriesFor(transfers, n - 1) = 0
               THEN proposals[n].proposal_deposit ELSE 0)

\* the balance covers the escrowed deposits: total balance minus
\* sum_of_proposal_deposits does not underflow
BalanceCoversEscrow == sum_of_proposal_deposits <= balance

\* a deposit that was transferred back is not counted in the sum
RefundedNotEscrowed == sum_of_proposal_deposits <= SumUnrefunded(NumProposals)

\* C26: in every reachable state, the states during an external dispatch and
\* the state left by a failed dispatch included, sum_of_proposal_deposits
\* does not exceed the contract's balance, and a refunded deposit is not
\* counted in sum_of_proposal_deposits any more.
C26_EscrowCovered == BalanceCoversEscrow /\ RefundedNotEscrowed

\* a dispatch is under way: the deposit went back to the creator and the
\* amount to the recipient, and the proposal is still open
C26_Witness ==
    \E id \in Dispatching :
        /\ P(id).open
        /\ EntriesFor(transfers, id) = 1
        /\ EntriesFor(calls, id) = 1
        /\ P(id).amount > 0

(***************************************************************************)
(* C27                                                                     *)
(***************************************************************************)
\* the transfers that return the deposit of proposal id
RefundsOf(id) == {i \in DOMAIN transfers : transfers[i].proposal_id = id}

\* at most one transfer per proposal, to its creator, of its stored deposit
RefundedAtMostOnce ==
    \A id \in RealIds :
        /\ Cardinality(RefundsOf(id)) <= 1
        /\ \A i \in RefundsOf(id) :
              /\ transfers[i].to = P(id).creator
              /\ transfers[i].value = P(id).proposal_deposit

\* the deposit and the creator that new_proposal stored stay as they are
EscrowRecordKept ==
    \A id \in RealIds :
        /\ proposals'[id + 1].proposal_deposit = P(id).proposal_deposit
        /\ proposals'[id + 1].creator = P(id).creator

\* C27: over any sequence of operations, re-entrant calls and execute_proposal
\* calls after a failed dispatch included, the deposit of each proposal is
\* transferred back to its creator at most once, and the amount transferred
\* is the deposit that new_proposal escrowed for it.
C27_RefundedOnce == []RefundedAtMostOnce /\ [][EscrowRecordKept]_vars

\* after a failed dispatch that had returned the deposit, execute_proposal
\* was called again on the open proposal and was rejected
C27_Witness ==
    \E id \in RealIds :
        /\ P(id).open
        /\ P(id).proposal_passed
        /\ EntriesFor(calls, id) = 1
        /\ Cardinality(RefundsOf(id)) = 1
        /\ last.op = "execute_proposal"
        /\ last.id = id
        /\ last.res = "ProposalExecutionFailed"

(***************************************************************************)
(* C28                                                                     *)
(***************************************************************************)
\* the public messages alone: verify_pre_support and close_proposal are
\* private and no message calls verify_pre_support
PublicNext ==
    \/ Tick
    \/ \E c \in NewProposalCalls, amount \in Amounts, data \in Payloads :
          /\ NumProposals <= MaxProposals
          /\ NewProposal(c[1], c[2], amount, <<>>, data, c[3], c[4])
    \/ \E caller \in Voters, id \in VoteIds, supports \in BOOLEAN :
          VoteInBounds(caller, id, supports) /\ Vote(caller, id, supports)
    \/ \E caller \in Voters, id \in VoteIds : UnVote(caller, id)
    \/ \E caller \in Voters : UnVoteAll(caller)
    \/ \E id \in Ids, sel \in Selectors, data \in Payloads, gas \in GasLimits :
          ExecuteProposal(id, sel, data, gas)
    \/ DispatchReturns
    \/ \E caller \in DepositCallers, d \in NewDeposits : ChangeProposalDeposit(caller, d)
    \/ \E caller \in Callers, r \in RegistryEntries, allowed \in BOOLEAN :
          ChangeAllowedRecipients(caller, r, allowed)
    \/ \E caller \in Callers : HalveMinQuorum(caller)
    \/ \E caller \in Voters : UnblockMe(caller)

PublicSpec == Init /\ [][PublicNext]_vars

\* execute_proposal(id, .., data, ..) finds a validated proposal to an allowed
\* recipient with yea > nay, the quorum met and the amount within the
\* spendable balance, before and after the deposit is returned
Eligible(id, data) ==
    /\ ValidatedAllowed(id, data)
    /\ P(id).yea > P(id).nay
    /\ ~ActualBalancePanics(balance)
    /\ QuorumMet(id)
    /\ ~ActualBalancePanics(BalanceAfterRefund(id))
    /\ P(id).yea >= MinQuorum(P(id).amount, BalanceAfterRefund(id))
    /\ P(id).amount <= ActualBalance(BalanceAfterRefund(id))
    /\ ~IsSplitCall(data)

\* the execution of an eligible proposal sets proposal_passed and dispatches
EligibleIsDispatched ==
    \A id \in RealIds : \A a \in ExecArgs :
        (ExecStep(id, a) /\ Eligible(id, a[2]))
          => /\ proposals'[id + 1].proposal_passed
             /\ EntriesFor(calls', id) = EntriesFor(calls, id) + 1

\* with the public messages alone pre_support stays false, no proposal is
\* passed and nothing is dispatched
PublicNeverPreSupported ==
    /\ calls = <<>>
    /\ \A id \in RealIds : ~P(id).pre_support /\ ~P(id).proposal_passed

\* C28: with the public messages alone, a proposal to an allowed recipient
\* with yea > nay, the quorum met and the amount within the spendable balance
\* reaches the passed state and has its call dispatched when it is executed.
C28_PublicDispatch == [][EligibleIsDispatched]_vars

\* a proposal to an allowed recipient with a yes vote and the quorum met was
\* executed: its deposit went back, it is closed and tallied, not passed and
\* never dispatched
C28_Witness ==
    \E id \in RealIds :
        /\ ~P(id).open
        /\ ~P(id).proposal_passed
        /\ ~P(id).pre_support
        /\ allowed_recipients[P(id).recipient]
        /\ P(id).yea > P(id).nay
        /\ P(id).amount <= ActualBalance(balance)
        /\ EntriesFor(transfers, id) = 1
        /\ EntriesFor(events, id) = 1
        /\ EntriesFor(calls, id) = 0

=============================================================================
